---- MODULE Spec2Model ----
(***************************************************************************)
(* A model of watchpick.py: the file-selection pipeline of main() and the  *)
(* helpers it calls.  Text is modelled as a sequence of one-character      *)
(* strings, a Path as the sequence of its components below "/", and an     *)
(* optional value as a sequence of length 0 (None) or 1.                   *)
(***************************************************************************)
EXTENDS Integers, Sequences, FiniteSets, TLC

VARIABLES
    fs,            \* the directory tree below the root
    env,           \* facts of the machine: kind of the root, watch.ts, fzf
    config,        \* the Config value main() builds from the arguments
    pc,            \* position of main()
    files,         \* the candidate list
    enumerated,    \* _iter_files has been called
    fzf,           \* the fzf subprocess: invoked, returncode, stdout, result
    numbered,      \* the numbered list: invoked, prompts shown, line read
    selected,      \* value of `selected` in main()
    baseline_path, \* value of `baseline_path` in main()
    argv,          \* the argument vector of the watch command
    stdout,        \* lines printed to standard output
    stderr,        \* messages printed to standard error
    clip,          \* the copy command: invoked, outcome, text received
    watch,         \* the watch subprocess: ran, argv
    exit           \* exit status of the process

vars == <<fs, env, config, pc, files, enumerated, fzf, numbered, selected,
          baseline_path, argv, stdout, stderr, clip, watch, exit>>

----------------------------------------------------------------------------
(* Bounds *)

MaxNodes == 3
MaxChoiceLen == 3
MaxPass == 2
MaxExtra == 2

----------------------------------------------------------------------------
(* Optional values and text *)

None == <<>>
Some(x) == <<x>>

NL == "\n"
TAB == "\t"

S_npx == <<"n","p","x">>
S_tsx == <<"t","s","x">>
S_type == <<"-","-","t","y","p","e">>
S_no_warn == <<"-","-","n","o","-","w","a","r","n">>
S_baseline == <<"-","-","b","a","s","e","l","i","n","e">>
S_dot_baseline == <<".","b","a","s","e","l","i","n","e">>
S_dashdash == <<"-","-">>
S_subs == <<"s","u","b","s">>
S_star == <<"*">>
S_dot_tmp == <<".","t","m","p">>

UpperChars == <<"A","B","C","D","E","F","G","H","I","J","K","L","M",
                "N","O","P","Q","R","S","T","U","V","W","X","Y","Z">>
LowerChars == <<"a","b","c","d","e","f","g","h","i","j","k","l","m",
                "n","o","p","q","r","s","t","u","v","w","x","y","z">>
DigitChars == <<"0","1","2","3","4","5","6","7","8","9">>

Range(s) == {s[i] : i \in 1..Len(s)}

StartsWith(s, p) == Len(s) >= Len(p) /\ SubSeq(s, 1, Len(p)) = p
EndsWith(s, p) == Len(s) >= Len(p) /\ SubSeq(s, Len(s) - Len(p) + 1, Len(s)) = p
Contains(s, p) == \E i \in 0..(Len(s) - Len(p)) : SubSeq(s, i + 1, i + Len(p)) = p

RECURSIVE Flatten(_)
Flatten(ss) == IF ss = <<>> THEN <<>> ELSE Head(ss) \o Flatten(Tail(ss))

----------------------------------------------------------------------------
(* pathlib: a Path is the sequence of its components; every path of the    *)
(* model is absolute (main() resolves the root, and the lines handed to   *)
(* fzf carry absolute paths).                                              *)

\* str(path)
PathStr(p) ==
    IF p = <<>> THEN <<"/">>
    ELSE Flatten([i \in 1..Len(p) |-> <<"/">> \o p[i]])

\* Path(text) for an absolute text: split on "/", empty components dropped
RECURSIVE ParsePath(_)
ParsePath(s) ==
    IF s = <<>> THEN <<>>
    ELSE IF Head(s) = "/" THEN ParsePath(Tail(s))
    ELSE LET stops == {i \in 1..Len(s) : s[i] = "/"}
             k == IF stops = {} THEN Len(s) + 1
                  ELSE CHOOSE i \in stops : \A j \in stops : i <= j
         IN  <<SubSeq(s, 1, k - 1)>> \o ParsePath(SubSeq(s, k, Len(s)))

\* path.name
PathName(p) == IF p = <<>> THEN <<>> ELSE p[Len(p)]

\* position of the last "." of a name when it starts a suffix, else 0
SuffixDot(name) ==
    LET dots == {i \in 1..Len(name) : name[i] = "."}
        i == IF dots = {} THEN 0 ELSE CHOOSE d \in dots : \A e \in dots : e <= d
    IN  IF 1 < i /\ i < Len(name) THEN i ELSE 0

\* path.suffix
PathSuffix(p) ==
    LET name == PathName(p)
        i == SuffixDot(name)
    IN  IF i = 0 THEN <<>> ELSE SubSeq(name, i, Len(name))

\* path.stem
PathStem(p) ==
    LET name == PathName(p)
        i == SuffixDot(name)
    IN  IF i = 0 THEN name ELSE SubSeq(name, 1, i - 1)

\* path.with_name(name)
WithName(p, name) == Append(SubSeq(p, 1, Len(p) - 1), name)

\* root / name
JoinPath(root, name) == Append(root, name)

IsUnder(path, root) == Len(path) >= Len(root) /\ SubSeq(path, 1, Len(root)) = root

\* str(path.relative_to(root))
RelStr(path, root) ==
    LET rest == SubSeq(path, Len(root) + 1, Len(path))
    IN  IF rest = <<>> THEN <<".">>
        ELSE Tail(PathStr(rest))

_rel_display(path, root) ==
    IF IsUnder(path, root) THEN RelStr(path, root) ELSE PathName(path)

----------------------------------------------------------------------------
(* The directory tree: fs[i] is the i-th entry below the root (entry 0),   *)
(* listed after its parent; os.scandir lists a directory in entry order.   *)

SKIP_DIR_NAMES ==
    { <<".","g","i","t">>,
      <<"n","o","d","e","_","m","o","d","u","l","e","s">>,
      <<"d","i","s","t">>,
      <<"b","u","i","l","d">>,
      <<"_","_","p","y","c","a","c","h","e","_","_">> }

RECURSIVE PathOf(_, _, _)
PathOf(t, root, i) ==
    IF i = 0 THEN root ELSE Append(PathOf(t, root, t[i].parent), t[i].name)

\* the entries of directory d, in listing order
RECURSIVE ListFrom(_, _, _)
ListFrom(t, d, i) ==
    IF i > Len(t) THEN <<>>
    ELSE (IF t[i].parent = d THEN <<i>> ELSE <<>>) \o ListFrom(t, d, i + 1)

ScanDir(t, d) == ListFrom(t, d, 1)

\* path.is_file()
IsFile(t, i) == t[i].kind = "file"

\* KeepDir without the ".tmp" test
KeepDirNoTmp(d) ==
    /\ ~StartsWith(d, <<".">>)
    /\ d \notin SKIP_DIR_NAMES

\* the condition of the dirnames[:] comprehension: d is kept
KeepDir(d) ==
    /\ ~StartsWith(d, <<".">>)
    /\ d \notin SKIP_DIR_NAMES
    /\ ~EndsWith(d, S_dot_tmp)

RECURSIVE FilterSeq(_, _, _)
FilterSeq(t, ids, kinds) ==
    IF ids = <<>> THEN <<>>
    ELSE (IF t[Head(ids)].kind \in kinds THEN <<Head(ids)>> ELSE <<>>)
         \o FilterSeq(t, Tail(ids), kinds)

RECURSIVE KeptDirs(_, _)
KeptDirs(t, ids) ==
    IF ids = <<>> THEN <<>>
    ELSE (IF KeepDir(t[Head(ids)].name) THEN <<Head(ids)>> ELSE <<>>)
         \o KeptDirs(t, Tail(ids))

RECURSIVE FilesOf(_, _, _)
FilesOf(t, root, ids) ==
    IF ids = <<>> THEN <<>>
    ELSE (IF IsFile(t, Head(ids)) THEN <<PathOf(t, root, Head(ids))>> ELSE <<>>)
         \o FilesOf(t, root, Tail(ids))

\* os.walk(root), top-down, with the pruning and the is_file() test of the loop body
RECURSIVE Walk(_, _, _)
RECURSIVE WalkAll(_, _, _)
Walk(t, root, d) ==
    LET entries == ScanDir(t, d)
        dirnames == KeptDirs(t, FilterSeq(t, entries, {"dir"}))
        filenames == FilterSeq(t, entries, {"file", "other"})
    IN  FilesOf(t, root, filenames) \o WalkAll(t, root, dirnames)
WalkAll(t, root, ds) ==
    IF ds = <<>> THEN <<>>
    ELSE Walk(t, root, Head(ds)) \o WalkAll(t, root, Tail(ds))

\* _iter_files: the list returned, or the exception raised.  os.walk of a
\* root that is not a directory yields nothing; iterdir() of it raises.
_iter_files(t, root, rootKind, recursive) ==
    IF recursive
    THEN [raised |-> FALSE,
          value |-> IF rootKind = "dir" THEN Walk(t, root, 0) ELSE <<>>]
    ELSE IF rootKind = "dir"
         THEN [raised |-> FALSE, value |-> FilesOf(t, root, ScanDir(t, 0))]
         ELSE [raised |-> TRUE, value |-> <<>>]

----------------------------------------------------------------------------
(* Filtering and ranking *)

_normalize_ext(ext) ==
    IF ext = <<>> THEN None
    ELSE Some(IF StartsWith(ext, <<".">>) THEN ext ELSE <<".">> \o ext)

\* line 281
ExtOf(arg) == IF arg = S_star THEN None ELSE _normalize_ext(arg)

RECURSIVE ExtFilter(_, _)
ExtFilter(paths, ext) ==
    IF paths = <<>> THEN <<>>
    ELSE (IF PathSuffix(Head(paths)) = ext THEN <<Head(paths)>> ELSE <<>>)
         \o ExtFilter(Tail(paths), ext)

\* p.stat().st_mtime
MtimeOf(t, root, p) ==
    LET i == CHOOSE j \in 1..Len(t) : PathOf(t, root, j) = p
    IN  t[i].mtime

\* sorted(..., reverse=True) is stable: x goes after every entry at least as recent
RECURSIVE InsertByMtime(_, _, _, _)
InsertByMtime(t, root, sorted, x) ==
    IF sorted = <<>> THEN <<x>>
    ELSE IF MtimeOf(t, root, Head(sorted)) >= MtimeOf(t, root, x)
         THEN <<Head(sorted)>> \o InsertByMtime(t, root, Tail(sorted), x)
         ELSE <<x>> \o sorted

RECURSIVE SortFrom(_, _, _, _)
SortFrom(t, root, paths, acc) ==
    IF paths = <<>> THEN acc
    ELSE SortFrom(t, root, Tail(paths), InsertByMtime(t, root, acc, Head(paths)))

_sort_by_mtime_desc(t, root, paths) == SortFrom(t, root, paths, <<>>)

CaseFoldChar(c) ==
    IF \E i \in 1..Len(UpperChars) : UpperChars[i] = c
    THEN LowerChars[CHOOSE i \in 1..Len(UpperChars) : UpperChars[i] = c]
    ELSE c

CaseFold(s) == [i \in 1..Len(s) |-> CaseFoldChar(s[i])]

White == {" ", NL, TAB}

RECURSIVE LStrip(_)
LStrip(s) == IF s # <<>> /\ Head(s) \in White THEN LStrip(Tail(s)) ELSE s

RECURSIVE RStrip(_, _)
RStrip(s, chars) ==
    IF s # <<>> /\ s[Len(s)] \in chars THEN RStrip(SubSeq(s, 1, Len(s) - 1), chars) ELSE s

\* text.strip()
Strip(s) == RStrip(LStrip(s), White)

RECURSIVE QueryFilter(_, _)
QueryFilter(paths, query) ==
    IF paths = <<>> THEN <<>>
    ELSE (IF Contains(CaseFold(PathName(Head(paths))), CaseFold(query))
          THEN <<Head(paths)>> ELSE <<>>)
         \o QueryFilter(Tail(paths), query)

----------------------------------------------------------------------------
(* Messages on standard error *)

Msg(prefix, kind, text) == [prefix |-> prefix, kind |-> kind, text |-> text]
ErrorMsg(kind, text) == Msg("error", kind, text)

RECURSIVE Digits(_)
Digits(n) ==
    IF n < 10 THEN <<DigitChars[n + 1]>>
    ELSE Digits(n \div 10) \o <<DigitChars[(n % 10) + 1]>>

----------------------------------------------------------------------------
(* The two selection strategies *)

\* the text fed to fzf: "\n".join(lines) + "\n"
FzfLine(path, root) == _rel_display(path, root) \o <<TAB>> \o PathStr(path)

RECURSIVE FzfInput(_, _)
FzfInput(paths, root) ==
    IF paths = <<>> THEN <<NL>>
    ELSE IF Len(paths) = 1 THEN FzfLine(Head(paths), root) \o <<NL>>
    ELSE FzfLine(Head(paths), root) \o <<NL>> \o FzfInput(Tail(paths), root)

\* selected.split("\t", 1)[1]
AfterFirstTab(s) ==
    LET k == CHOOSE i \in 1..Len(s) : s[i] = TAB /\ \A j \in 1..(i - 1) : s[j] # TAB
    IN  SubSeq(s, k + 1, Len(s))

\* lines 90-102 of _pick_with_fzf: the result for a finished fzf process
FzfSelection(returncode, out) ==
    IF returncode # 0 THEN None
    ELSE LET sel == RStrip(out, {NL})
         IN  IF sel = <<>> THEN None
             ELSE IF TAB \in Range(sel) THEN Some(ParsePath(AfterFirstTab(sel)))
             ELSE Some(ParsePath(sel))

\* int(choice): an optional sign and decimal digits
RECURSIVE DigitsValue(_, _)
DigitsValue(s, acc) ==
    IF s = <<>> THEN acc
    ELSE DigitsValue(Tail(s),
             acc * 10 + ((CHOOSE i \in 1..Len(DigitChars) : DigitChars[i] = Head(s)) - 1))

ParseInt(s) ==
    LET signed == s # <<>> /\ Head(s) \in {"+", "-"}
        body == IF signed THEN Tail(s) ELSE s
    IN  IF body = <<>> \/ ~(Range(body) \subseteq Range(DigitChars)) THEN None
        ELSE IF signed /\ Head(s) = "-" THEN Some(0 - DigitsValue(body, 0))
        ELSE Some(DigitsValue(body, 0))

MaxShown == 50

\* paths[:50]
Shown(paths) == SubSeq(paths, 1, IF Len(paths) < MaxShown THEN Len(paths) ELSE MaxShown)

Listing(paths, root) ==
    [i \in 1..Len(Shown(paths)) |->
        Msg("", "item", (IF i < 10 THEN <<" ">> ELSE <<>>) \o Digits(i) \o <<".", " ">>
                        \o _rel_display(Shown(paths)[i], root))]

\* NumberedSelection with the range taken from the whole list
NumberedSelectionWholeList(paths, line) ==
    LET choice == Strip(line)
        index == ParseInt(choice)
    IN  IF choice = <<>> THEN [result |-> None, errors |-> <<>>]
        ELSE IF index = None
             THEN [result |-> None, errors |-> <<ErrorMsg("number", <<>>)>>]
        ELSE IF index[1] < 1 \/ index[1] > Len(paths)
             THEN [result |-> None,
                   errors |-> <<ErrorMsg("range", <<"1", ".", ".">> \o Digits(Len(paths)))>>]
        ELSE [result |-> Some(paths[index[1]]), errors |-> <<>>]

\* lines 110-121 of _pick_with_numbered_list: result and error for the line read
NumberedSelection(paths, line) ==
    LET shown == Shown(paths)
        choice == Strip(line)
        index == ParseInt(choice)
    IN  IF choice = <<>> THEN [result |-> None, errors |-> <<>>]
        ELSE IF index = None
             THEN [result |-> None, errors |-> <<ErrorMsg("number", <<>>)>>]
        ELSE IF index[1] < 1 \/ index[1] > Len(shown)
             THEN [result |-> None,
                   errors |-> <<ErrorMsg("range", <<"1", ".", ".">> \o Digits(Len(shown)))>>]
        ELSE [result |-> Some(shown[index[1]]), errors |-> <<>>]

----------------------------------------------------------------------------
(* Baseline and command *)

_default_baseline_for(file_path, baseline_root) ==
    LET name == PathStem(file_path) \o S_dot_baseline \o PathSuffix(file_path)
    IN  IF baseline_root # None THEN JoinPath(baseline_root[1], name)
        ELSE WithName(file_path, name)

\* BaselineFor with the override tested before the suppression
BaselineForOverrideFirst(cfg, file_path) ==
    IF cfg.baseline_override # None THEN Some(cfg.baseline_override[1])
    ELSE IF cfg.no_baseline THEN None
    ELSE Some(_default_baseline_for(file_path, cfg.baseline_root))

\* lines 327-333 of main
BaselineFor(cfg, file_path) ==
    IF cfg.no_baseline THEN None
    ELSE IF cfg.baseline_override # None THEN Some(cfg.baseline_override[1])
    ELSE Some(_default_baseline_for(file_path, cfg.baseline_root))

\* _build_watch_argv with the baseline placed before --no-warn
BuildWatchArgvBaselineFirst(watch_ts, file_path, type_, no_warn, baseline, passthrough) ==
    <<S_npx, S_tsx, PathStr(watch_ts), PathStr(file_path)>>
    \o <<S_type, type_>>
    \o (IF baseline # None THEN <<S_baseline, PathStr(baseline[1])>> ELSE <<>>)
    \o (IF no_warn THEN <<S_no_warn>> ELSE <<>>)
    \o passthrough

_build_watch_argv(watch_ts, file_path, type_, no_warn, baseline, passthrough) ==
    <<S_npx, S_tsx, PathStr(watch_ts), PathStr(file_path)>>
    \o <<S_type, type_>>
    \o (IF no_warn THEN <<S_no_warn>> ELSE <<>>)
    \o (IF baseline # None THEN <<S_baseline, PathStr(baseline[1])>> ELSE <<>>)
    \o passthrough

\* line 305
PassthroughOf(rest) ==
    IF SubSeq(rest, 1, IF Len(rest) < 1 THEN Len(rest) ELSE 1) = <<S_dashdash>>
    THEN Tail(rest) ELSE rest

SafeChars ==
    Range(UpperChars) \cup Range(LowerChars) \cup Range(DigitChars)
    \cup {"_", "@", "%", "+", "=", ":", ",", ".", "/", "-"}

\* shlex.quote
ShlexQuote(a) ==
    IF a = <<>> THEN <<"'", "'">>
    ELSE IF Range(a) \subseteq SafeChars THEN a
    ELSE <<"'">>
         \o Flatten([i \in 1..Len(a) |->
                       IF a[i] = "'" THEN <<"'", "\"", "'", "\"", "'">> ELSE <<a[i]>>])
         \o <<"'">>

RECURSIVE _shell_join(_)
_shell_join(args) ==
    IF args = <<>> THEN <<>>
    ELSE IF Len(args) = 1 THEN ShlexQuote(Head(args))
    ELSE ShlexQuote(Head(args)) \o <<" ">> \o _shell_join(Tail(args))

----------------------------------------------------------------------------
(* The inputs of a run *)

N_a_txt == <<"a", ".", "t", "x", "t">>
N_B_txt == <<"B", ".", "t", "x", "t">>
N_c_txt == <<"c", ".", "t", "x", "t">>
N_n_md == <<"n", ".", "m", "d">>
N_src == <<"s", "r", "c">>
N_git == <<".", "g", "i", "t">>
N_dist == <<"d", "i", "s", "t">>
N_node_modules == <<"n", "o", "d", "e", "_", "m", "o", "d", "u", "l", "e", "s">>
N_hidden == <<".", "x">>
N_a_tmp == <<"a", ".", "t", "m", "p">>
N_report_txt == <<"r", "e", "p", "o", "r", "t", ".", "t", "x", "t">>
N_bashrc == <<".", "b", "a", "s", "h", "r", "c">>
N_a_tar_gz == <<"a", ".", "t", "a", "r", ".", "g", "z">>
N_noext == <<"n", "o", "e", "x", "t">>
N_my_file == <<"m", "y", " ", "f">>

RootPath == << <<"r">> >>
OtherDir == << <<"a">>, <<"b">> >>
WatchTsPath == << <<"w", ".", "t", "s">> >>
BaselineRootPath == << <<"b", "a", "s", "e", "l", "i", "n", "e", "s">> >>
OverridePath == << <<"o", ".", "t", "x", "t">> >>
TmpExample == <<"/", "t", "m", "p", "/", "e", "x", "a", "m", "p", "l", "e", ".", "t", "x", "t">>
S_v == <<"-", "v">>
S_wl_copy == <<"w", "l", "-", "c", "o", "p", "y">>

Node(parent, name, kind, mtime) ==
    [parent |-> parent, name |-> name, kind |-> kind, mtime |-> mtime]

\* a well-formed tree: a parent is the root or an earlier directory, and
\* the entries of one directory have different names
WellFormed(t) ==
    /\ \A i \in 1..Len(t) :
          /\ t[i].parent < i
          /\ t[i].parent # 0 => t[t[i].parent].kind = "dir"
    /\ \A i, j \in 1..Len(t) :
          (i # j /\ t[i].parent = t[j].parent) => t[i].name # t[j].name

DirNames == {N_src, N_git, N_dist, N_node_modules, N_hidden, N_a_tmp}

Entries(n) ==
    [parent : 0..(n - 1), name : DirNames, kind : {"dir"}, mtime : {1}]
    \cup [parent : 0..(n - 1), name : {N_a_txt}, kind : {"file", "other"}, mtime : {1}]

\* every tree of at most MaxNodes entries
Trees ==
    UNION {{t \in [1..n -> Entries(n)] : WellFormed(t)} : n \in 0..MaxNodes}

TreeA ==
    << Node(0, N_a_txt, "file", 1), Node(0, N_B_txt, "file", 2),
       Node(0, N_src, "dir", 1), Node(3, N_c_txt, "file", 3),
       Node(0, N_git, "dir", 1), Node(5, N_a_txt, "file", 1) >>
TreeB == << Node(0, N_n_md, "file", 1), Node(0, N_c_txt, "other", 1) >>
TreeC == << >>

RunTrees == {TreeA, TreeB, TreeC}

\* the arguments that only shape the command
Profiles ==
    { [no_warn |-> TRUE, no_baseline |-> FALSE, baseline |-> None,
       baseline_root |-> None, rest |-> <<>>],
      [no_warn |-> FALSE, no_baseline |-> TRUE, baseline |-> Some(OverridePath),
       baseline_root |-> Some(BaselineRootPath), rest |-> <<S_dashdash, S_v>>],
      [no_warn |-> TRUE, no_baseline |-> FALSE, baseline |-> Some(OverridePath),
       baseline_root |-> Some(BaselineRootPath), rest |-> <<S_v>>],
      [no_warn |-> FALSE, no_baseline |-> FALSE, baseline |-> None,
       baseline_root |-> Some(BaselineRootPath), rest |-> <<>>] }

\* lines 290-306: the Config of the parsed arguments
MakeConfig(recursive, ext, query, profile, copy, print_only, run, type_) ==
    [ root |-> RootPath,
      recursive |-> recursive,
      ext |-> ExtOf(ext),
      query |-> Strip(query),
      watch_ts |-> WatchTsPath,
      type_ |-> type_,
      no_warn |-> profile.no_warn,
      baseline_root |-> profile.baseline_root,
      baseline_override |-> profile.baseline,
      no_baseline |-> profile.no_baseline,
      copy |-> copy,
      copy_cmd |-> S_wl_copy,
      print_only |-> print_only,
      run |-> run,
      passthrough |-> PassthroughOf(profile.rest) ]

ExtArgs == { <<"t", "x", "t">>, S_star, <<".", "m", "d">> }
QueryArgs == { <<>>, <<" ", "b", " ">>, <<"z", "z">> }

NoFzf == [invoked |-> FALSE, returncode |-> 0, out |-> <<>>, result |-> None]
NoNumbered == [invoked |-> FALSE, prompts |-> 0, line |-> <<>>]
NoClip == [invoked |-> FALSE, found |-> FALSE, returncode |-> 0, text |-> <<>>]
NoWatch == [ran |-> FALSE, argv |-> <<>>, returncode |-> 0]

Fresh ==
    /\ enumerated = FALSE
    /\ fzf = NoFzf
    /\ numbered = NoNumbered
    /\ selected = None
    /\ baseline_path = None
    /\ argv = <<>>
    /\ stdout = <<>>
    /\ stderr = <<>>
    /\ clip = NoClip
    /\ watch = NoWatch
    /\ exit = None

\* a whole run of main(), from the parsed arguments
Init ==
    /\ env \in [rootKind : {"missing", "file", "dir"}, watch_ts : BOOLEAN, fzf : BOOLEAN]
    /\ fs \in RunTrees
    /\ env.rootKind # "dir" => fs = <<>>
    /\ \E recursive, copy, print_only, run \in BOOLEAN :
       \E ext \in ExtArgs, query \in QueryArgs, profile \in Profiles :
          config = MakeConfig(recursive, ext, query, profile, copy, print_only, run, S_subs)
    /\ pc = "check_root"
    /\ files = <<>>
    /\ Fresh

----------------------------------------------------------------------------
(* main(), one action per step between two waits or returns *)

Halt(status, msgs) ==
    /\ stderr' = stderr \o msgs
    /\ exit' = Some(status)
    /\ pc' = "done"

\* lines 276-279
CheckRoot ==
    /\ pc = "check_root"
    /\ IF env.rootKind = "missing"
       THEN Halt(1, <<ErrorMsg("root", PathStr(config.root))>>)
       ELSE pc' = "check_watch_ts" /\ UNCHANGED <<stderr, exit>>
    /\ UNCHANGED <<fs, env, config, files, enumerated, fzf, numbered, selected,
                   baseline_path, argv, stdout, clip, watch>>

\* CheckWatchTs that reports the missing watch.ts and goes on
CheckWatchTsNoReturn ==
    /\ pc = "check_watch_ts"
    /\ pc' = "enumerate"
    /\ stderr' = IF ~env.watch_ts
                 THEN Append(stderr, ErrorMsg("watch_ts", PathStr(config.watch_ts)))
                 ELSE stderr
    /\ UNCHANGED <<fs, env, config, files, enumerated, fzf, numbered, selected,
                   baseline_path, argv, stdout, clip, watch, exit>>

\* lines 282-285
CheckWatchTs ==
    /\ pc = "check_watch_ts"
    /\ IF ~env.watch_ts
       THEN Halt(1, <<ErrorMsg("watch_ts", PathStr(config.watch_ts))>>)
       ELSE pc' = "enumerate" /\ UNCHANGED <<stderr, exit>>
    /\ UNCHANGED <<fs, env, config, files, enumerated, fzf, numbered, selected,
                   baseline_path, argv, stdout, clip, watch>>

\* lines 308-313; an exception that leaves main() ends the process with a
\* traceback and status 1
Enumerate ==
    /\ pc = "enumerate"
    /\ enumerated' = TRUE
    /\ LET r == _iter_files(fs, config.root, env.rootKind, config.recursive)
           kept == IF config.ext # None THEN ExtFilter(r.value, config.ext[1])
                   ELSE r.value
       IN  IF r.raised
           THEN Halt(1, <<Msg("Traceback", "NotADirectoryError", PathStr(config.root))>>)
                /\ UNCHANGED files
           ELSE IF kept = <<>>
           THEN Halt(1, <<ErrorMsg("no_files", PathStr(config.root))>>)
                /\ UNCHANGED files
           ELSE /\ files' = kept
                /\ pc' = "rank"
                /\ UNCHANGED <<stderr, exit>>
    /\ UNCHANGED <<fs, env, config, fzf, numbered, selected,
                   baseline_path, argv, stdout, clip, watch>>

\* lines 315-320
Rank ==
    /\ pc = "rank"
    /\ LET ranked == _sort_by_mtime_desc(fs, config.root, files)
           kept == IF config.query # <<>> THEN QueryFilter(ranked, config.query)
                   ELSE ranked
       IN  IF kept = <<>>
           THEN Halt(1, <<ErrorMsg("no_matches", config.query)>>) /\ UNCHANGED files
           ELSE /\ files' = kept
                /\ pc' = "pick_fzf"
                /\ UNCHANGED <<stderr, exit>>
    /\ UNCHANGED <<fs, env, config, enumerated, fzf, numbered, selected,
                   baseline_path, argv, stdout, clip, watch>>

\* what the fzf process may print: nothing, a line of its input, a bare path
FzfOutputs ==
    { <<>>, FzfLine(files[1], config.root) \o <<NL>>, TmpExample \o <<NL>> }

FzfCodes == {0, 1}

\* line 322, left operand: _pick_with_fzf (lines 62-102); `or` goes on to
\* the numbered list when it returns None
PickFzf ==
    /\ pc = "pick_fzf"
    /\ IF ~env.fzf
       THEN /\ pc' = "pick_numbered"
            /\ UNCHANGED <<fzf, selected>>
       ELSE \E returncode \in FzfCodes, out \in FzfOutputs :
               LET result == FzfSelection(returncode, out)
               IN  /\ fzf' = [invoked |-> TRUE, returncode |-> returncode,
                              out |-> out, result |-> result]
                   /\ IF result = None
                      THEN pc' = "pick_numbered" /\ UNCHANGED selected
                      ELSE pc' = "resolve" /\ selected' = result
    /\ UNCHANGED <<fs, env, config, files, enumerated, numbered,
                   baseline_path, argv, stdout, stderr, clip, watch, exit>>

\* line 322, right operand: _pick_with_numbered_list (lines 105-121)
PickNumberedFrom(lines) ==
    /\ pc = "pick_numbered"
    /\ \E line \in lines :
          LET r == NumberedSelection(files, line)
          IN  /\ numbered' = [invoked |-> TRUE, prompts |-> numbered.prompts + 1,
                              line |-> line]
              /\ stderr' = stderr \o Listing(files, config.root)
                                  \o <<Msg("", "prompt", <<>>)>> \o r.errors
              /\ selected' = r.result
    /\ pc' = "resolve"
    /\ UNCHANGED <<fs, env, config, files, enumerated, fzf,
                   baseline_path, argv, stdout, clip, watch, exit>>

\* the lines a user types in a run
RunLines == { <<>>, <<NL>>, <<"1", NL>>, <<"7", NL>>, <<"x", NL>> }

PickNumbered == PickNumberedFrom(RunLines)

\* Resolve that goes on to the command with the first candidate when nothing was selected
ResolveDefaultsToFirst ==
    /\ pc = "resolve"
    /\ LET file_path == IF selected = None THEN files[1] ELSE selected[1]
           baseline == BaselineFor(config, file_path)
           built == _build_watch_argv(config.watch_ts, file_path, config.type_,
                                      config.no_warn, baseline, config.passthrough)
       IN  /\ baseline_path' = Some(baseline)
           /\ argv' = built
           /\ stdout' = IF config.print_only \/ config.copy \/ ~config.run
                        THEN Append(stdout, _shell_join(built))
                        ELSE stdout
           /\ IF config.copy THEN pc' = "copy" /\ UNCHANGED exit
              ELSE IF config.run THEN pc' = "run" /\ UNCHANGED exit
              ELSE pc' = "done" /\ exit' = Some(0)
    /\ UNCHANGED <<fs, env, config, files, enumerated, fzf, numbered, selected,
                   stderr, clip, watch>>

\* lines 323-346 and the dispatch to the copy and run steps
Resolve ==
    /\ pc = "resolve"
    /\ IF selected = None
       THEN /\ exit' = Some(0)
            /\ pc' = "done"
            /\ UNCHANGED <<baseline_path, argv, stdout>>
       ELSE LET file_path == selected[1]
                baseline == BaselineFor(config, file_path)
                built == _build_watch_argv(config.watch_ts, file_path, config.type_,
                                           config.no_warn, baseline, config.passthrough)
            IN  /\ baseline_path' = Some(baseline)
                /\ argv' = built
                /\ stdout' = IF config.print_only \/ config.copy \/ ~config.run
                             THEN Append(stdout, _shell_join(built))
                             ELSE stdout
                /\ IF config.copy THEN pc' = "copy" /\ UNCHANGED exit
                   ELSE IF config.run THEN pc' = "run" /\ UNCHANGED exit
                   ELSE pc' = "done" /\ exit' = Some(0)
    /\ UNCHANGED <<fs, env, config, files, enumerated, fzf, numbered, selected,
                   stderr, clip, watch>>

\* the copy command: not found, or found and exited with a status
CopyOutcomes ==
    { [found |-> FALSE, returncode |-> 0],
      [found |-> TRUE, returncode |-> 0],
      [found |-> TRUE, returncode |-> 1] }

\* Copy that does not check the exit status of the copy command
CopyUnchecked ==
    /\ pc = "copy"
    /\ \E o \in CopyOutcomes :
          /\ clip' = [invoked |-> TRUE, found |-> o.found, returncode |-> o.returncode,
                      text |-> IF o.found THEN _shell_join(argv) \o <<NL>> ELSE <<>>]
          /\ IF ~o.found
             THEN Halt(3, <<ErrorMsg("copy_not_found", config.copy_cmd)>>)
             ELSE IF config.run
             THEN pc' = "run" /\ UNCHANGED <<stderr, exit>>
             ELSE pc' = "done" /\ exit' = Some(0) /\ UNCHANGED stderr
    /\ UNCHANGED <<fs, env, config, files, enumerated, fzf, numbered, selected,
                   baseline_path, argv, stdout, watch>>

\* lines 348-356 and _copy_text
Copy ==
    /\ pc = "copy"
    /\ \E o \in CopyOutcomes :
          /\ clip' = [invoked |-> TRUE, found |-> o.found, returncode |-> o.returncode,
                      text |-> IF o.found THEN _shell_join(argv) \o <<NL>> ELSE <<>>]
          /\ IF ~o.found
             THEN Halt(3, <<ErrorMsg("copy_not_found", config.copy_cmd)>>)
             ELSE IF o.returncode # 0
             THEN Halt(3, <<ErrorMsg("copy_failed",
                                     Digits(o.returncode) \o <<" ">> \o config.copy_cmd)>>)
             ELSE IF config.run
             THEN pc' = "run" /\ UNCHANGED <<stderr, exit>>
             ELSE pc' = "done" /\ exit' = Some(0) /\ UNCHANGED stderr
    /\ UNCHANGED <<fs, env, config, files, enumerated, fzf, numbered, selected,
                   baseline_path, argv, stdout, watch>>

WatchCodes == {0, 2}

\* lines 358-359
RunWatch ==
    /\ pc = "run"
    /\ \E returncode \in WatchCodes :
          /\ watch' = [ran |-> TRUE, argv |-> argv, returncode |-> returncode]
          /\ exit' = Some(returncode)
    /\ pc' = "done"
    /\ UNCHANGED <<fs, env, config, files, enumerated, fzf, numbered, selected,
                   baseline_path, argv, stdout, stderr, clip>>

Next ==
    \/ CheckRoot
    \/ CheckWatchTs
    \/ Enumerate
    \/ Rank
    \/ PickFzf
    \/ PickNumbered
    \/ Resolve
    \/ Copy
    \/ RunWatch

Spec == Init /\ [][Next]_vars

----------------------------------------------------------------------------
(* Recursive enumeration alone, over every small tree *)

PlainConfig ==
    MakeConfig(TRUE, S_star, <<>>,
               [no_warn |-> TRUE, no_baseline |-> FALSE, baseline |-> None,
                baseline_root |-> None, rest |-> <<>>],
               FALSE, FALSE, TRUE, S_subs)

InitWalk ==
    /\ fs \in Trees
    /\ env = [rootKind |-> "dir", watch_ts |-> TRUE, fzf |-> FALSE]
    /\ config = PlainConfig
    /\ pc = "enumerate"
    /\ files = <<>>
    /\ Fresh

NextWalk == Enumerate

SpecWalk == InitWalk /\ [][NextWalk]_vars

----------------------------------------------------------------------------
(* The numbered list alone, over lists around the display limit *)

FileList(n) == [i \in 1..n |-> Append(RootPath, <<"f">> \o Digits(i))]

ListSizes == (1..MaxExtra) \cup ((MaxShown - MaxExtra)..(MaxShown + MaxExtra))

ChoiceChars == {"0", "1", "2", "5", "-", "+", "a", " "}

\* what readline() returns: nothing at end of input, else a line
AllLines ==
    {<<>>} \cup
    UNION {{s \o <<NL>> : s \in [1..n -> ChoiceChars]} : n \in 0..MaxChoiceLen}

InitNumbered ==
    /\ fs = <<>>
    /\ env = [rootKind |-> "dir", watch_ts |-> TRUE, fzf |-> FALSE]
    /\ config = PlainConfig
    /\ pc = "pick_numbered"
    /\ files \in {FileList(n) : n \in ListSizes}
    /\ Fresh

PickNumberedAny == PickNumberedFrom(AllLines)

NextNumbered == PickNumberedAny

SpecNumbered == InitNumbered /\ [][NextNumbered]_vars

----------------------------------------------------------------------------
(* Baseline and command alone, over every combination of their inputs *)

ResolveFiles ==
    {Append(d, n) : d \in {RootPath, OtherDir},
                    n \in {N_report_txt, N_bashrc, N_a_tar_gz, N_noext, N_my_file}}

PassTokens == {S_dashdash, S_v, <<"a", " ", "b">>}

RestArgs == UNION {[1..n -> PassTokens] : n \in 0..MaxPass}

InitResolve ==
    /\ fs = <<>>
    /\ env = [rootKind |-> "dir", watch_ts |-> TRUE, fzf |-> TRUE]
    /\ \E no_warn, no_baseline, print_only \in BOOLEAN :
       \E baseline \in {None, Some(OverridePath)} :
       \E baseline_root \in {None, Some(BaselineRootPath)} :
       \E rest \in RestArgs, type_ \in {S_subs, <<"t">>} :
          config = MakeConfig(FALSE, S_star, <<>>,
                              [no_warn |-> no_warn, no_baseline |-> no_baseline,
                               baseline |-> baseline, baseline_root |-> baseline_root,
                               rest |-> rest],
                              FALSE, print_only, FALSE, type_)
    /\ pc = "resolve"
    /\ files = <<>>
    /\ \E f \in ResolveFiles :
          /\ selected = Some(f)
          /\ fzf = [invoked |-> TRUE, returncode |-> 0,
                    out |-> PathStr(f) \o <<NL>>, result |-> Some(f)]
    /\ enumerated = TRUE
    /\ numbered = NoNumbered
    /\ baseline_path = None
    /\ argv = <<>>
    /\ stdout = <<>>
    /\ stderr = <<>>
    /\ clip = NoClip
    /\ watch = NoWatch
    /\ exit = None

NextResolve == Resolve

SpecResolve == InitResolve /\ [][NextResolve]_vars

----------------------------------------------------------------------------
(* Properties *)

ErrorsOf(msgs) == SelectSeq(msgs, LAMBDA m : m.prefix = "error")
PromptsOf(msgs) == SelectSeq(msgs, LAMBDA m : m.kind = "prompt")

\* C1: the result of the fzf strategy is a function of the text fzf printed
\* alone: the path after the first tab (the whole text without a tab) when
\* the text is not empty, None when it is, whatever the exit status.
C1_ResultFromOutputOnly ==
    fzf.invoked =>
        LET text == RStrip(fzf.out, {NL})
        IN  fzf.result =
               IF text = <<>> THEN None
               ELSE IF TAB \in Range(text) THEN Some(ParsePath(AfterFirstTab(text)))
               ELSE Some(ParsePath(text))

\* C2: the numbered list is shown if and only if fzf is absent: once fzf
\* has been invoked the numbered list is never shown, and without fzf the
\* selection is always made by the numbered list.
C2_NumberedIffFzfAbsent ==
    /\ numbered.invoked => ~fzf.invoked /\ ~env.fzf
    /\ (pc \in {"resolve", "copy", "run"} /\ ~env.fzf) => numbered.invoked

\* the value of a line of decimal digits, by position
RECURSIVE Pow10(_)
Pow10(n) == IF n = 0 THEN 1 ELSE 10 * Pow10(n - 1)

DigitOf(c) == CHOOSE d \in 0..9 : DigitChars[d + 1] = c

RECURSIVE PositionalSum(_, _)
PositionalSum(ds, i) ==
    IF i > Len(ds) THEN 0
    ELSE DigitOf(ds[i]) * Pow10(Len(ds) - i) + PositionalSum(ds, i + 1)

\* the line without the blanks around it
Typed(line) ==
    LET inner == {i \in 1..Len(line) : line[i] \notin White}
    IN  IF inner = {} THEN <<>>
        ELSE SubSeq(line, CHOOSE i \in inner : \A j \in inner : i <= j,
                          CHOOSE i \in inner : \A j \in inner : j <= i)

TypedDigits(line) ==
    LET t == Typed(line)
    IN  IF t # <<>> /\ t[1] \in {"+", "-"} THEN Tail(t) ELSE t

IsInteger(line) ==
    /\ TypedDigits(line) # <<>>
    /\ \A i \in 1..Len(TypedDigits(line)) : \E d \in 0..9 : DigitChars[d + 1] = TypedDigits(line)[i]

IntegerOf(line) ==
    IF Typed(line)[1] = "-" THEN 0 - PositionalSum(TypedDigits(line), 1)
    ELSE PositionalSum(TypedDigits(line), 1)

\* C3: with m = min(n, 50) candidates displayed, the numbered list returns
\* the k-th displayed candidate for an integer k in 1..m, None with a range
\* error naming 1..m for an integer outside, None with a format error for a
\* line that is no integer, None without an error for an empty line; it
\* prompts once and never returns a candidate beyond the first 50.
C3_NumberedList ==
    numbered.invoked =>
        LET m == IF Len(files) < 50 THEN Len(files) ELSE 50
            line == numbered.line
            errors == ErrorsOf(stderr)
        IN  /\ numbered.prompts = 1
            /\ Len(PromptsOf(stderr)) = 1
            /\ Len(stderr) = m + 1 + Len(errors)
            /\ Typed(line) = <<>> => selected = None /\ errors = <<>>
            /\ (Typed(line) # <<>> /\ ~IsInteger(line)) =>
                   /\ selected = None
                   /\ errors = <<ErrorMsg("number", <<>>)>>
            /\ (IsInteger(line) /\ IntegerOf(line) \in 1..m) =>
                   /\ selected = Some(files[IntegerOf(line)])
                   /\ errors = <<>>
            /\ (IsInteger(line) /\ IntegerOf(line) \notin 1..m) =>
                   /\ selected = None
                   /\ errors = <<ErrorMsg("range", <<"1", ".", ".">> \o Digits(m))>>
            /\ selected # None => \E i \in 1..50 : i <= Len(files) /\ selected[1] = files[i]

\* C3 witness: more than 50 candidates, and the line read is the number 51
C3_Witness ==
    /\ numbered.invoked
    /\ Len(files) > 50
    /\ IsInteger(numbered.line)
    /\ IntegerOf(numbered.line) = 51
    /\ selected = None

\* a directory name that is pruned
PrunedName(d) ==
    \/ d[1] = "."
    \/ d \in SKIP_DIR_NAMES
    \/ (Len(d) >= 4 /\ <<d[Len(d) - 3], d[Len(d) - 2], d[Len(d) - 1], d[Len(d)]>> = S_dot_tmp)

\* the directories between the root and entry i
RECURSIVE DirsAbove(_, _)
DirsAbove(t, i) ==
    IF t[i].parent = 0 THEN {} ELSE {t[i].parent} \cup DirsAbove(t, t[i].parent)

\* the regular files the enumeration is to yield
Visible(t, recursive) ==
    {i \in 1..Len(t) :
        /\ t[i].kind = "file"
        /\ IF recursive THEN \A a \in DirsAbove(t, i) : ~PrunedName(t[a].name)
           ELSE t[i].parent = 0}

Candidates(t, cfg) ==
    {i \in Visible(t, cfg.recursive) :
        cfg.ext # None => PathSuffix(PathOf(t, cfg.root, i)) = cfg.ext[1]}

Matches(t, cfg) ==
    {i \in Candidates(t, cfg) :
        Contains(CaseFold(t[i].name), CaseFold(cfg.query))}

PreconditionFailure ==
    \/ env.rootKind = "missing"
    \/ ~env.watch_ts
    \/ env.rootKind = "dir" /\ Candidates(fs, config) = {}
    \/ env.rootKind = "dir" /\ config.query # <<>> /\ Matches(fs, config) = {}

\* C4: a run with a failed precondition (root missing, watch.ts missing,
\* no candidate after the extension filter, no match of a non-empty query)
\* never invokes a selection strategy, never builds, prints or copies a
\* command and never runs the watch tool, and it ends with one error
\* message and exit status 1.
C4_PreconditionHalts ==
    PreconditionFailure =>
        /\ ~fzf.invoked
        /\ ~numbered.invoked
        /\ argv = <<>>
        /\ stdout = <<>>
        /\ ~clip.invoked
        /\ ~watch.ran
        /\ pc \in {"check_root", "check_watch_ts", "enumerate", "rank", "done"}
        /\ pc = "done" =>
              /\ exit = Some(1)
              /\ Len(stderr) = 1
              /\ stderr[1].prefix = "error"
              /\ stderr[1].kind \in {"root", "watch_ts", "no_files", "no_matches"}

\* C4 witness: a run halted because the query matches no candidate
C4_Witness ==
    /\ pc = "done"
    /\ env.rootKind = "dir"
    /\ env.watch_ts
    /\ Candidates(fs, config) # {}
    /\ config.query # <<>>
    /\ Matches(fs, config) = {}
    /\ exit = Some(1)

\* C5: when the copy command fails (not found, or a non-zero status) the
\* run ends with status 3 and the watch tool is never run, with running
\* enabled or not; when it succeeds and running is enabled, the status of
\* the run is the status of the watch tool.
C5_CopyFailure ==
    /\ (clip.invoked /\ (~clip.found \/ clip.returncode # 0)) =>
          /\ pc = "done"
          /\ exit = Some(3)
          /\ ~watch.ran
    /\ (clip.invoked /\ clip.found /\ clip.returncode = 0 /\ config.run /\ pc = "done") =>
          /\ watch.ran
          /\ exit = Some(watch.returncode)

\* C5 witness: the copy command exits non-zero in a run with running enabled
C5_Witness ==
    /\ config.copy
    /\ config.run
    /\ clip.invoked
    /\ clip.found
    /\ clip.returncode # 0
    /\ exit = Some(3)

C7_ArgvLayout ==
    (pc # "resolve" /\ selected # None) =>
        LET b == baseline_path[1]
            w == IF config.no_warn THEN 1 ELSE 0
            k == IF b # None THEN 2 ELSE 0
            pass == config.passthrough
        IN  /\ Len(argv) = 6 + w + k + Len(pass)
            /\ argv[1] = <<"n", "p", "x">>
            /\ argv[2] = <<"t", "s", "x">>
            /\ argv[3] = PathStr(config.watch_ts)
            /\ argv[4] = PathStr(selected[1])
            /\ argv[5] = <<"-", "-", "t", "y", "p", "e">>
            /\ argv[6] = config.type_
            /\ config.no_warn => argv[7] = <<"-", "-", "n", "o", "-", "w", "a", "r", "n">>
            /\ b # None =>
                  /\ argv[7 + w] = <<"-", "-", "b", "a", "s", "e", "l", "i", "n", "e">>
                  /\ argv[8 + w] = PathStr(b[1])
            /\ \A i \in 1..Len(pass) : argv[6 + w + k + i] = pass[i]

\* C7 witness: a command built with --no-warn, a baseline and two pass-through arguments
C7_Witness ==
    /\ pc # "resolve"
    /\ argv # <<>>
    /\ config.no_warn
    /\ baseline_path # None
    /\ baseline_path[1] # None
    /\ Len(config.passthrough) >= 2

\* C8: recursive enumeration yields no file below a directory with a
\* pruned name (dot-prefixed, in the skip set, or ending in ".tmp") at any
\* depth, and yields every regular file with no such directory above it.
C8_Pruning ==
    (pc # "enumerate" /\ config.recursive) =>
        /\ \A j \in 1..Len(files) :
              \E i \in 1..Len(fs) :
                 /\ files[j] = PathOf(fs, config.root, i)
                 /\ fs[i].kind = "file"
                 /\ \A a \in DirsAbove(fs, i) : ~PrunedName(fs[a].name)
        /\ \A i \in Visible(fs, TRUE) :
              \E j \in 1..Len(files) : files[j] = PathOf(fs, config.root, i)
        /\ Len(files) = Cardinality(Visible(fs, TRUE))

\* C8 witness: a regular file in an unpruned directory inside a pruned one is not yielded
C8_Witness ==
    /\ pc # "enumerate"
    /\ files = <<>>
    /\ \E i \in 1..Len(fs) :
          /\ fs[i].kind = "file"
          /\ fs[i].parent # 0
          /\ ~PrunedName(fs[fs[i].parent].name)
          /\ fs[fs[i].parent].parent # 0
          /\ PrunedName(fs[fs[fs[i].parent].parent].name)

\* the name splits into a stem and its last dotted extension
SplitsAs(name, stem, ext) ==
    /\ name = stem \o ext
    /\ stem # <<>>
    /\ Len(ext) >= 2
    /\ ext[1] = "."
    /\ \A i \in 2..Len(ext) : ext[i] # "."

BaselineNameOf(name, candidate) ==
    IF \E k \in 1..Len(name) : SplitsAs(name, SubSeq(name, 1, k), SubSeq(name, k + 1, Len(name)))
    THEN \E k \in 1..Len(name) :
            /\ SplitsAs(name, SubSeq(name, 1, k), SubSeq(name, k + 1, Len(name)))
            /\ candidate = SubSeq(name, 1, k) \o <<".", "b", "a", "s", "e", "l", "i", "n", "e">>
                           \o SubSeq(name, k + 1, Len(name))
    ELSE candidate = name \o <<".", "b", "a", "s", "e", "l", "i", "n", "e">>

\* C9: the baseline handed to the command builder is None when the
\* baseline is suppressed (override and root notwithstanding), else the
\* override when there is one, else "<stem>.baseline<ext>" under the
\* baseline root when there is one and beside the selected file otherwise.
C9_Baseline ==
    (pc # "resolve" /\ selected # None) =>
        LET b == baseline_path[1]
            file == selected[1]
        IN  IF config.no_baseline THEN b = None
            ELSE IF config.baseline_override # None THEN b = config.baseline_override
            ELSE /\ b # None
                 /\ Len(b[1]) >= 1
                 /\ BaselineNameOf(file[Len(file)], b[1][Len(b[1])])
                 /\ SubSeq(b[1], 1, Len(b[1]) - 1) =
                       IF config.baseline_root # None THEN config.baseline_root[1]
                       ELSE SubSeq(file, 1, Len(file) - 1)

\* C9 witness: /a/b/report.txt without a baseline root gives /a/b/report.baseline.txt
C9_Witness ==
    /\ pc # "resolve"
    /\ selected = Some(Append(OtherDir, N_report_txt))
    /\ baseline_path = Some(Some(Append(OtherDir,
           <<"r", "e", "p", "o", "r", "t", ".", "b", "a", "s", "e", "l", "i", "n", "e",
             ".", "t", "x", "t">>)))

\* C10: a run whose root exists but is no directory is halted before the
\* enumeration, with one prefixed error message and exit status 1.
C10_RootMustBeDirectory ==
    env.rootKind = "file" =>
        /\ ~enumerated
        /\ pc = "done" =>
              /\ exit = Some(1)
              /\ Len(stderr) = 1
              /\ stderr[1].prefix = "error"

====
